---- MODULE Spec2Model ----
(***************************************************************************)
(* treexml: assembly of an Element tree from the event stream of an XML    *)
(* reader (Document::parse, Document::parse_children) and the rendering of *)
(* a tree back to text.                                                    *)
(*                                                                         *)
(* Strings are sequences of one-character strings, so that concatenation,  *)
(* wrapping and escaping are computed character by character.              *)
(***************************************************************************)
EXTENDS Naturals, Sequences, FiniteSets, TLC

VARIABLES
    stack,      \* the `me` of every active parse_children call, outermost first
    doc,        \* the `doc` local of Document::parse
    result,     \* what Document::parse has returned so far
    consumed,   \* every event reader.next() has returned, in order
    reader,     \* the event source
    writer      \* the document being written and the text written

vars == <<stack, doc, result, consumed, reader, writer>>

(***************************************************************************)
(* Bounds of the model.                                                    *)
(***************************************************************************)
MaxEvents == 7      \* events one parse reads
MaxExtra == 2       \* events among them that neither open nor close an element

(***************************************************************************)
(* Option<T>                                                               *)
(***************************************************************************)
None == [tag |-> "None"]
Some(v) == [tag |-> "Some", val |-> v]

Last(s) == s[Len(s)]
Front(s) == SubSeq(s, 1, Len(s) - 1)

(***************************************************************************)
(* The tree model.                                                         *)
(***************************************************************************)
EmptyMap == [k \in {} |-> <<>>]

Element(prefix, name, attributes, children, contents) ==
    [prefix |-> prefix, name |-> name, attributes |-> attributes,
     children |-> children, contents |-> contents]

UTF8 == <<"U", "T", "F", "-", "8">>

DocumentDefault == [version |-> "Version10", encoding |-> UTF8, root |-> None]

(***************************************************************************)
(* The events of xml::reader::XmlEvent the parser matches on, and the      *)
(* reader's Err.                                                           *)
(***************************************************************************)
OwnedName(prefix, local) == [prefix |-> prefix, local_name |-> local]
OwnedAttribute(prefix, local, value) ==
    [name |-> OwnedName(prefix, local), value |-> value]

StartDocument(version, encoding) ==
    [type |-> "StartDocument", version |-> version, encoding |-> encoding]
StartElement(name, attributes) ==
    [type |-> "StartElement", name |-> name, attributes |-> attributes]
EndElement(name) == [type |-> "EndElement", name |-> name]
Characters(s) == [type |-> "Characters", text |-> s]
CData(s) == [type |-> "CData", text |-> s]
Whitespace(s) == [type |-> "Whitespace", text |-> s]
Comment(s) == [type |-> "Comment", text |-> s]
EndDocument == [type |-> "EndDocument"]
ReaderErr(e) == [type |-> "Error", error |-> e]

(***************************************************************************)
(* Document::parse and Document::parse_children, one operator per match    *)
(* arm.  A parser state st is [stack, doc, result].                        *)
(***************************************************************************)
Running == [kind |-> "Running"]
Ok(d) == [kind |-> "Ok", doc |-> d]
Err(e) == [kind |-> "Err", error |-> e]
Panic == [kind |-> "Panic"]

AttrName(attr) ==
    IF attr.name.prefix.tag = "Some"
    THEN attr.name.prefix.val \o <<":">> \o attr.name.local_name
    ELSE attr.name.local_name

RECURSIVE AttrMap(_, _)
AttrMap(attributes, attr_map) ==
    IF attributes = <<>> THEN attr_map
    ELSE AttrMap(Tail(attributes),
                 (AttrName(Head(attributes)) :> Head(attributes).value) @@ attr_map)

NewElement(ev) ==
    Element(ev.name.prefix, ev.name.local_name,
            AttrMap(ev.attributes, EmptyMap), <<>>, None)

TopStartDocument(st, ev) ==
    [st EXCEPT !.doc.version = ev.version, !.doc.encoding = ev.encoding]

\* parse_children(&mut reader, root) is entered; doc.root is assigned on its return.
TopStartElement(st, ev) == [st EXCEPT !.stack = <<NewElement(ev)>>]

TopEndDocument(st, ev) == [st EXCEPT !.result = Ok(st.doc)]

TopOther(st, ev) == st

ChildStartElement(st, ev) == [st EXCEPT !.stack = Append(@, NewElement(ev))]

\* Mutant of ReturnOk: the returned child is put before its siblings.
ReturnOk_Prepend(st, me) ==
    LET n == Len(st.stack) IN
    IF n = 1
    THEN [st EXCEPT !.stack = <<>>, !.doc.root = Some(me)]
    ELSE [st EXCEPT !.stack =
            [Front(st.stack) EXCEPT ![n - 1].children = <<me>> \o @]]

\* return Ok(me): the caller pushes it to its children, or assigns doc.root.
ReturnOk(st, me) ==
    LET n == Len(st.stack) IN
    IF n = 1
    THEN [st EXCEPT !.stack = <<>>, !.doc.root = Some(me)]
    ELSE [st EXCEPT !.stack =
            [Front(st.stack) EXCEPT ![n - 1].children = Append(@, me)]]

\* Mutant of TryErr: an Err inside parse_children ends that call with what it has.
TryErr_Swallow(st, ev) ==
    IF st.stack = <<>>
    THEN [st EXCEPT !.result = Err(ev.error)]
    ELSE ReturnOk(st, Last(st.stack))

\* try!(reader.next()) on an Err: every active call returns it unchanged.
TryErr(st, ev) == [st EXCEPT !.stack = <<>>, !.result = Err(ev.error)]

\* Mutant of NameMatches: the prefix is not compared.
NameMatches_LocalOnly(name, me) == name.local_name = me.name

NameMatches(name, me) == name.prefix = me.prefix /\ name.local_name = me.name

ChildEndElement(st, ev) ==
    LET me == Last(st.stack) IN
    IF NameMatches(ev.name, me)
    THEN ReturnOk(st, me)
    ELSE [st EXCEPT !.stack = <<>>, !.result = Panic]

Unwrap(contents) == IF contents.tag = "Some" THEN contents.val ELSE <<>>

CDataOpen == <<"<", "!", "[", "C", "D", "A", "T", "A", "[">>
CDataClose == <<"]", "]", ">">>

ChildCharacters(st, ev) ==
    LET n == Len(st.stack) IN
    [st EXCEPT !.stack[n].contents = Some(Unwrap(@) \o ev.text)]

\* Mutant of ChildCData: the run is appended without its CDATA wrapper.
ChildCData_Unwrapped(st, ev) ==
    LET n == Len(st.stack) IN
    [st EXCEPT !.stack[n].contents = Some(Unwrap(@) \o ev.text)]

ChildCData(st, ev) ==
    LET n == Len(st.stack) IN
    [st EXCEPT !.stack[n].contents =
        Some(Unwrap(@) \o CDataOpen \o ev.text \o CDataClose)]

\* Mutant of ChildOther: a Whitespace run is kept as text.
ChildOther_KeepWhitespace(st, ev) ==
    IF ev.type = "Whitespace" THEN ChildCharacters(st, ev) ELSE st

ChildOther(st, ev) == st

(***************************************************************************)
(* The event source.  It is outside the parser: any event may come next.   *)
(* Once it has returned EndDocument it returns EndDocument again.          *)
(***************************************************************************)
Text1 == <<"w", "o">>
Text3 == <<"<", "t", ">">>

StartElementEvents ==
    { StartElement(OwnedName(None, <<"a">>),
                   << OwnedAttribute(None, <<"k">>, <<"1">>) >>),
      StartElement(OwnedName(Some(<<"p">>), <<"a">>),
                   << OwnedAttribute(Some(<<"p">>), <<"k">>, <<"1">>),
                      OwnedAttribute(Some(<<"p">>), <<"k">>, <<"2">>) >>) }

EndElementEvents ==
    { EndElement(OwnedName(None, <<"a">>)),
      EndElement(OwnedName(Some(<<"p">>), <<"a">>)),
      EndElement(OwnedName(None, <<"b">>)) }

\* An EndElement that arrives while no element is open.
StrayEvents == { EndElement(OwnedName(None, <<"a">>)) }

TextEvents == { Characters(Text1), CData(Text3) }

MiscEvents ==
    { Whitespace(<<" ">>), Comment(<<"c">>), StartDocument("Version11", <<"l", "1">>) }

ErrorEvents == { ReaderErr("e1"), ReaderErr("e2") }

Count(h, types) == Cardinality({ i \in 1..Len(h) : h[i].type \in types })

\* The elements still open after h: a StartElement is open while the events
\* from it onwards hold more StartElements than EndElements at every point.
StillOpen(h, i) ==
    /\ h[i].type = "StartElement"
    /\ \A k \in i..Len(h) :
         Count(SubSeq(h, i, k), {"StartElement"})
             > Count(SubSeq(h, i, k), {"EndElement"})
Open(h) == Cardinality({ i \in 1..Len(h) : StillOpen(h, i) })

\* The events of h that neither open an element nor close one, an EndElement
\* that arrives while no element is open included; and the events left.
Extras(h) ==
    Len(h) - Count(h, {"StartElement"}) - (Count(h, {"StartElement"}) - Open(h))
Room(h) == MaxEvents - Len(h)

FreeEvents(h) ==
    IF Len(h) >= MaxEvents THEN {}
    ELSE IF h # <<>> /\ Last(h).type = "EndDocument" THEN { EndDocument }
    ELSE (IF Room(h) >= Open(h) + 3 THEN StartElementEvents ELSE {})
         \cup (IF Open(h) > 0 THEN EndElementEvents ELSE {})
         \cup (IF Room(h) >= Open(h) + 2 /\ Extras(h) < MaxExtra
               THEN TextEvents \cup MiscEvents
                    \cup (IF Open(h) = 0 THEN StrayEvents ELSE {})
               ELSE {})
         \cup { EndDocument } \cup ErrorEvents

\* A reader over a fixed event sequence whose last event is final.
QueueEvents(rest) == IF rest = <<>> THEN {} ELSE { Head(rest) }

Offered ==
    IF reader.kind = "free" THEN FreeEvents(consumed)
    ELSE IF reader.kind = "queue" THEN QueueEvents(reader.rest)
    ELSE {}

ReaderNext ==
    IF reader.kind # "queue" \/ Len(reader.rest) <= 1 THEN reader
    ELSE [reader EXCEPT !.rest = Tail(@)]

(***************************************************************************)
(* The actions: one reader.next() and the match arm that handles it.       *)
(***************************************************************************)
St == [stack |-> stack, doc |-> doc, result |-> result]

Advance(ev, st) ==
    /\ stack' = st.stack
    /\ doc' = st.doc
    /\ result' = st.result
    /\ consumed' = Append(consumed, ev)
    /\ reader' = ReaderNext
    /\ UNCHANGED writer

InParse == result = Running /\ stack = <<>>
InParseChildren == result = Running /\ stack # <<>>

ReadError ==
    /\ result = Running
    /\ \E ev \in Offered : ev.type = "Error" /\ Advance(ev, TryErr(St, ev))

ReadTopStartDocument ==
    /\ InParse
    /\ \E ev \in Offered : ev.type = "StartDocument" /\ Advance(ev, TopStartDocument(St, ev))

ReadTopStartElement ==
    /\ InParse
    /\ \E ev \in Offered : ev.type = "StartElement" /\ Advance(ev, TopStartElement(St, ev))

ReadTopEndDocument ==
    /\ InParse
    /\ \E ev \in Offered : ev.type = "EndDocument" /\ Advance(ev, TopEndDocument(St, ev))

ReadTopOther ==
    /\ InParse
    /\ \E ev \in Offered :
        /\ ev.type \notin {"Error", "StartDocument", "StartElement", "EndDocument"}
        /\ Advance(ev, TopOther(St, ev))

ReadChildStartElement ==
    /\ InParseChildren
    /\ \E ev \in Offered : ev.type = "StartElement" /\ Advance(ev, ChildStartElement(St, ev))

ReadChildEndElement ==
    /\ InParseChildren
    /\ \E ev \in Offered : ev.type = "EndElement" /\ Advance(ev, ChildEndElement(St, ev))

ReadChildCharacters ==
    /\ InParseChildren
    /\ \E ev \in Offered : ev.type = "Characters" /\ Advance(ev, ChildCharacters(St, ev))

ReadChildCData ==
    /\ InParseChildren
    /\ \E ev \in Offered : ev.type = "CData" /\ Advance(ev, ChildCData(St, ev))

ReadChildOther ==
    /\ InParseChildren
    /\ \E ev \in Offered :
        /\ ev.type \notin {"Error", "StartElement", "EndElement", "Characters", "CData"}
        /\ Advance(ev, ChildOther(St, ev))

Init ==
    /\ stack = <<>>
    /\ doc = DocumentDefault
    /\ result = Running
    /\ consumed = <<>>
    /\ reader = [kind |-> "free"]
    /\ writer = [kind |-> "idle"]

Next ==
    \/ ReadError
    \/ ReadTopStartDocument
    \/ ReadTopStartElement
    \/ ReadTopEndDocument
    \/ ReadTopOther
    \/ ReadChildStartElement
    \/ ReadChildEndElement
    \/ ReadChildCharacters
    \/ ReadChildCData
    \/ ReadChildOther

Spec == Init /\ [][Next]_vars

(***************************************************************************)
(* What the history of events says, computed without the parser's stack.   *)
(***************************************************************************)
IsStart(e) == e.type = "StartElement"
IsEnd(e) == e.type = "EndElement"
IsStructural(e) == IsStart(e) \/ IsEnd(e)
IsRun(e) == e.type \in {"Characters", "CData"}

Starts(h, i, k) == Cardinality({ j \in i..k : IsStart(h[j]) })
Ends(h, i, k) == Cardinality({ j \in i..k : IsEnd(h[j]) })

\* The element opened by h[i] is still open when h[j] arrives.
OpenAt(h, i, j) ==
    /\ i < j
    /\ IsStart(h[i])
    /\ \A k \in i..(j - 1) : Starts(h, i, k) > Ends(h, i, k)

\* The index of the StartElement of the innermost element open when h[j]
\* arrives; 0 when none is.
Opener(h, j) ==
    LET open == { i \in 1..(j - 1) : OpenAt(h, i, j) } IN
    IF open = {} THEN 0 ELSE CHOOSE i \in open : \A k \in open : k <= i

\* The StartElement events that arrive while no element is open.
TopStarts(h) == { i \in 1..Len(h) : IsStart(h[i]) /\ Opener(h, i) = 0 }
MinOf(S) == CHOOSE i \in S : \A k \in S : i <= k
MaxOf(S) == CHOOSE i \in S : \A k \in S : k <= i

\* The index of the event that closes the element opened by h[i].
CloseOf(h, i) == MinOf({ k \in i..Len(h) : Starts(h, i, k) = Ends(h, i, k) })

Tag(e) == << e.type, e.name.prefix, e.name.local_name >>

StructOf(h) ==
    LET f == SelectSeq(h, IsStructural) IN [ i \in 1..Len(f) |-> Tag(f[i]) ]

\* A tree written back as the StartElement and EndElement events of its
\* elements, in document order.
RECURSIVE Lin(_)
RECURSIVE LinAll(_)
Lin(el) ==
    << <<"StartElement", el.prefix, el.name>> >> \o LinAll(el.children)
        \o << <<"EndElement", el.prefix, el.name>> >>
LinAll(els) == IF els = <<>> THEN <<>> ELSE Lin(Head(els)) \o LinAll(Tail(els))

\* The contents of the elements of a tree, in document order.
RECURSIVE Contents(_)
RECURSIVE ContentsAll(_)
Contents(el) == << el.contents >> \o ContentsAll(el.children)
ContentsAll(els) ==
    IF els = <<>> THEN <<>> ELSE Contents(Head(els)) \o ContentsAll(Tail(els))

RunText(e) ==
    IF e.type = "CData"
    THEN <<"<", "!", "[", "C", "D", "A", "T", "A", "[">> \o e.text \o <<"]", "]", ">">>
    ELSE e.text

RECURSIVE Flatten(_)
Flatten(ss) == IF ss = <<>> THEN <<>> ELSE Head(ss) \o Flatten(Tail(ss))

\* The runs that arrive while the element opened by h[i] is the innermost
\* open one, concatenated; None when there is none.
IsRunOf(h, i, j) == IsRun(h[j]) /\ Opener(h, j) = i
RunsOf(h, i) ==
    LET js == { j \in 1..Len(h) : IsRunOf(h, i, j) } IN
    IF js = {} THEN None
    ELSE Some(Flatten([ j \in 1..Len(h) |->
                            IF IsRunOf(h, i, j) THEN RunText(h[j]) ELSE <<>> ]))

\* The indices of the StartElement events from h[i] on, in order.
RECURSIVE StartsFrom(_, _)
StartsFrom(h, i) ==
    IF i > Len(h) THEN <<>>
    ELSE (IF IsStart(h[i]) THEN <<i>> ELSE <<>>) \o StartsFrom(h, i + 1)

Parsed == result.kind = "Ok"
Reads == consumed' # consumed
JustRead == Last(consumed')

(***************************************************************************)
(* C1.  An EndElement read while an element is open: when its prefix and   *)
(* local name are those of the innermost open element, that element and    *)
(* no other is closed and handed to its parent (appended to the parent's   *)
(* children, or made the root); when they differ the parse panics, and a   *)
(* panicked parse never turns into an Ok or an Err.                        *)
(***************************************************************************)
C1_Closes ==
    LET n == Len(stack)
        me == stack[n]
    IN  /\ result' = Running
        /\ Len(stack') = n - 1
        /\ IF n = 1
           THEN doc' = [doc EXCEPT !.root = Some(me)]
           ELSE /\ doc' = doc
                /\ Front(stack') = SubSeq(stack, 1, n - 2)
                /\ stack'[n - 1] =
                     [stack[n - 1] EXCEPT !.children = Append(@, me)]

C1_Step ==
    /\ (Reads /\ result = Running /\ stack # <<>> /\ IsEnd(JustRead)) =>
          IF /\ JustRead.name.prefix = Last(stack).prefix
             /\ JustRead.name.local_name = Last(stack).name
          THEN C1_Closes
          ELSE result' = Panic
    /\ result = Panic => result' = Panic

C1_EndElementClosesOrPanics == [][C1_Step]_vars

C1_Witness ==
    /\ result = Panic
    /\ IsEnd(Last(consumed))
    /\ Ends(consumed, 1, Len(consumed)) >= 2
    /\ Starts(consumed, 1, Len(consumed)) >= 2

(***************************************************************************)
(* C2.  When the reader returns an error, at the top level or inside any   *)
(* nesting of parse_children, parse returns Err with that very error and   *)
(* nothing else (no document), and reads no further event.                 *)
(***************************************************************************)
C2_Returned ==
    /\ (consumed # <<>> /\ Last(consumed).type = "Error") =>
          result = [kind |-> "Err", error |-> Last(consumed).error]
    /\ result.kind = "Err" => (consumed # <<>> /\ Last(consumed).type = "Error")

C2_ErrorPropagatesVerbatim ==
    [] C2_Returned /\ [][result.kind = "Err" => ~Reads]_vars

C2_Witness ==
    /\ result.kind = "Err"
    /\ Open(Front(consumed)) >= 2

(***************************************************************************)
(* C3.  After a successful parse the root tree, written back as start and  *)
(* end events in document order, is the sequence of StartElement and       *)
(* EndElement events read from the root's StartElement to the event that   *)
(* closes it: every element has as children the elements opened while it   *)
(* was the innermost open one, in arrival order, each closed before its    *)
(* next sibling starts.                                                    *)
(***************************************************************************)
C3_ChildrenInDocumentOrder ==
    (Parsed /\ result.doc.root.tag = "Some") =>
        LET i == MaxOf(TopStarts(consumed)) IN
        Lin(result.doc.root.val) =
            StructOf(SubSeq(consumed, i, CloseOf(consumed, i)))

C3_Witness ==
    /\ Parsed
    /\ result.doc.root.tag = "Some"
    /\ LET kids == result.doc.root.val.children IN
        /\ Len(kids) = 2
        /\ kids[1].prefix # kids[2].prefix

(***************************************************************************)
(* C4.  After a successful parse the contents of every element is the      *)
(* concatenation, in arrival order, of the Characters runs (as they are)   *)
(* and the CData runs (wrapped in <![CDATA[ and ]]>) that arrived while    *)
(* that element was the innermost open one, and None when none arrived.    *)
(***************************************************************************)
C4_ContentsAreOwnRuns ==
    (Parsed /\ result.doc.root.tag = "Some") =>
        LET ix == StartsFrom(consumed, MaxOf(TopStarts(consumed))) IN
        Contents(result.doc.root.val) =
            [ k \in 1..Len(ix) |-> RunsOf(consumed, ix[k]) ]

C4_Witness ==
    /\ Parsed
    /\ result.doc.root.tag = "Some"
    /\ LET root == result.doc.root.val IN
        /\ root.contents = None
        /\ Len(root.children) = 1
        /\ root.children[1].contents =
             Some(<<"w", "o", "<", "!", "[", "C", "D", "A", "T", "A", "[",
                    "<", "t", ">", "]", "]", ">">>)

(***************************************************************************)
(* C5.  Once the reader has returned EndDocument or an error, parse has    *)
(* returned: Ok on EndDocument, Err on an error.  It does not go on        *)
(* reading, also not when EndDocument arrives while an element is open.    *)
(***************************************************************************)
C5_ReturnsAtEndOfEvents ==
    LET n == Len(consumed) IN
    /\ (n > 0 /\ consumed[n].type = "Error") => result.kind = "Err"
    /\ (n > 0 /\ consumed[n].type = "EndDocument") =>
          /\ result.kind # "Running"
          /\ Opener(consumed, n) = 0 => result.kind = "Ok"

(***************************************************************************)
(* C6.  After a successful parse the root is the tree of the first         *)
(* StartElement of the event sequence, up to the event that closes it,     *)
(* and None when the sequence has no StartElement.                         *)
(***************************************************************************)
C6_RootIsFirstElement ==
    Parsed =>
        LET ss == { i \in 1..Len(consumed) : IsStart(consumed[i]) } IN
        IF ss = {} THEN result.doc.root = None
        ELSE /\ result.doc.root.tag = "Some"
             /\ Lin(result.doc.root.val) =
                  StructOf(SubSeq(consumed, MinOf(ss), CloseOf(consumed, MinOf(ss))))

(***************************************************************************)
(* C7.  Reading a Whitespace or a Comment event changes nothing of the     *)
(* parse: not the open elements, not the document, not the result.  So a   *)
(* sequence with such events added or removed parses to the same result.   *)
(***************************************************************************)
C7_WhitespaceAndCommentDropped ==
    [][(Reads /\ JustRead.type \in {"Whitespace", "Comment"}) =>
          (stack' = stack /\ doc' = doc /\ result' = result)]_vars

C7_Witness ==
    /\ Len(consumed) >= 2
    /\ Last(consumed).type \in {"Whitespace", "Comment"}
    /\ IsRun(consumed[Len(consumed) - 1])
    /\ stack # <<>>
    /\ Last(stack).contents # None

(***************************************************************************)
(* The serializer: Element and Document rendered to text under a           *)
(* formatting configuration [pretty, indent, decl].                        *)
(***************************************************************************)
NL == <<"\n">>
Lt == <<"&", "l", "t", ";">>

\* to_string(): the declaration, and one element per line, two spaces a level.
Pretty == [pretty |-> TRUE, indent |-> <<" ", " ">>, decl |-> TRUE]
\* write_with(w, false, "", false): no declaration, nothing between the tags.
Condensed == [pretty |-> FALSE, indent |-> <<>>, decl |-> FALSE]

QName(el) ==
    IF el.prefix.tag = "Some" THEN el.prefix.val \o <<":">> \o el.name ELSE el.name

\* The attributes of a map, one after the other, in an order the map fixes.
RECURSIVE WriteAttributes(_)
WriteAttributes(m) ==
    IF DOMAIN m = {} THEN <<>>
    ELSE LET k == CHOOSE x \in DOMAIN m : TRUE IN
         <<" ">> \o k \o <<"=", "\"">> \o m[k] \o <<"\"">>
            \o WriteAttributes([ x \in DOMAIN m \ {k} |-> m[x] ])

OpenTag(el) == <<"<">> \o QName(el) \o WriteAttributes(el.attributes) \o <<">">>
CloseTag(el) == <<"<", "/">> \o QName(el) \o <<">">>
ShortTag(el) == <<"<">> \o QName(el) \o WriteAttributes(el.attributes) \o <<" ", "/", ">">>

\* pat occurs in s at index i.
At(s, i, pat) ==
    /\ i >= 1
    /\ i + Len(pat) - 1 <= Len(s)
    /\ SubSeq(s, i, i + Len(pat) - 1) = pat

\* The first index from `from` on at which pat occurs in s; 0 when none.
Find(s, pat, from) ==
    LET hits == { i \in from..Len(s) : At(s, i, pat) } IN
    IF hits = {} THEN 0 ELSE CHOOSE i \in hits : \A k \in hits : i <= k

\* Mutant of EscapeFrom: a < is escaped inside a CDATA section too.
RECURSIVE EscapeFrom_Everywhere(_, _)
EscapeFrom_Everywhere(c, i) ==
    IF i > Len(c) THEN <<>>
    ELSE (IF c[i] = "<" THEN Lt ELSE << c[i] >>) \o EscapeFrom_Everywhere(c, i + 1)

\* Contents from index i on: a CDATA-wrapped stretch as it is, any other <
\* as &lt;.
RECURSIVE EscapeFrom(_, _)
EscapeFrom(c, i) ==
    IF i > Len(c) THEN <<>>
    ELSE LET e == IF At(c, i, CDataOpen)
                  THEN Find(c, CDataClose, i + Len(CDataOpen)) ELSE 0
         IN  IF e > 0
             THEN SubSeq(c, i, e + Len(CDataClose) - 1)
                    \o EscapeFrom(c, e + Len(CDataClose))
             ELSE (IF c[i] = "<" THEN Lt ELSE << c[i] >>) \o EscapeFrom(c, i + 1)

WriteContents(contents) ==
    IF contents.tag = "Some" THEN EscapeFrom(contents.val, 1) ELSE <<>>

RECURSIVE Indent(_, _)
Indent(cfg, depth) ==
    IF ~cfg.pretty THEN <<>>
    ELSE IF depth = 0 THEN NL ELSE Indent(cfg, depth - 1) \o cfg.indent

\* Mutant of WriteElement: every element without children is written short.
RECURSIVE WriteElement_ShortWhenChildless(_, _, _)
RECURSIVE WriteChildren_ShortWhenChildless(_, _, _)
WriteElement_ShortWhenChildless(el, depth, cfg) ==
    IF el.children = <<>> THEN ShortTag(el)
    ELSE OpenTag(el) \o WriteContents(el.contents)
            \o WriteChildren_ShortWhenChildless(el.children, depth + 1, cfg)
            \o Indent(cfg, depth) \o CloseTag(el)
WriteChildren_ShortWhenChildless(els, depth, cfg) ==
    IF els = <<>> THEN <<>>
    ELSE Indent(cfg, depth) \o WriteElement_ShortWhenChildless(Head(els), depth, cfg)
            \o WriteChildren_ShortWhenChildless(Tail(els), depth, cfg)

RECURSIVE WriteElement(_, _, _)
RECURSIVE WriteChildren(_, _, _)
WriteElement(el, depth, cfg) ==
    IF el.children = <<>> /\ el.contents = None THEN ShortTag(el)
    ELSE IF el.children = <<>>
    THEN OpenTag(el) \o WriteContents(el.contents) \o CloseTag(el)
    ELSE OpenTag(el) \o WriteContents(el.contents)
            \o WriteChildren(el.children, depth + 1, cfg)
            \o Indent(cfg, depth) \o CloseTag(el)
WriteChildren(els, depth, cfg) ==
    IF els = <<>> THEN <<>>
    ELSE Indent(cfg, depth) \o WriteElement(Head(els), depth, cfg)
            \o WriteChildren(Tail(els), depth, cfg)

VersionText(v) == IF v = "Version11" THEN <<"1", ".", "1">> ELSE <<"1", ".", "0">>

Declaration(d) ==
    <<"<", "?", "x", "m", "l", " ", "v", "e", "r", "s", "i", "o", "n", "=", "\"">> \o VersionText(d.version)
        \o <<"\"", " ", "e", "n", "c", "o", "d", "i", "n", "g", "=", "\"">> \o d.encoding \o <<"\"", "?", ">">>

WriteDocument(d, cfg) ==
    (IF cfg.decl THEN Declaration(d) ELSE <<>>)
        \o (IF d.root.tag = "Some"
            THEN (IF cfg.decl THEN Indent(cfg, 0) ELSE <<>>)
                    \o WriteElement(d.root.val, 0, cfg)
            ELSE <<>>)

(***************************************************************************)
(* The event reader over a text: the events of the markup the serializer   *)
(* writes, ending with EndDocument or with an error.                       *)
(***************************************************************************)
IsSpace(ch) == ch \in {" ", "\n"}
AllSpace(s) == \A i \in 1..Len(s) : IsSpace(s[i])

ParseName(q) ==
    LET c == Find(q, <<":">>, 1) IN
    IF c = 0 THEN OwnedName(None, q)
    ELSE OwnedName(Some(SubSeq(q, 1, c - 1)), SubSeq(q, c + 1, Len(q)))

NameChars ==
    { "a", "b", "c", "d", "e", "f", "g", "h", "i", "j", "k", "l", "m", "n",
      "o", "p", "q", "r", "s", "t", "u", "v", "w", "x", "y", "z", ":", "-" }
IsName(q) == q # <<>> /\ \A i \in 1..Len(q) : q[i] \in NameChars

\* The text &lt; &gt; &amp; decoded from index i on; None on any other &.
RECURSIVE Decode(_, _)
Decode(s, i) ==
    IF i > Len(s) THEN Some(<<>>)
    ELSE LET ent == IF At(s, i, <<"&", "l", "t", ";">>) THEN << "<", 4 >>
                    ELSE IF At(s, i, <<"&", "g", "t", ";">>) THEN << ">", 4 >>
                    ELSE IF At(s, i, <<"&", "a", "m", "p", ";">>) THEN << "&", 5 >>
                    ELSE << s[i], 1 >>
             rest == Decode(s, i + ent[2])
         IN  IF s[i] = "&" /\ ent[2] = 1 THEN None
             ELSE IF rest = None THEN None
             ELSE Some(<< ent[1] >> \o rest.val)

\* The attributes  k="v" k="v"  of a start tag, from index i on; None when
\* they are not of that form.
RECURSIVE LexAttributes(_, _)
LexAttributes(s, i) ==
    IF i > Len(s) THEN Some(<<>>)
    ELSE LET eq == Find(s, <<"=", "\"">>, i)
             q == IF eq = 0 THEN 0 ELSE Find(s, <<"\"">>, eq + 2)
         IN  IF s[i] # " " \/ eq = 0 \/ q = 0 \/ ~IsName(SubSeq(s, i + 1, eq - 1))
             THEN None
             ELSE LET rest == LexAttributes(s, q + 1)
                      name == ParseName(SubSeq(s, i + 1, eq - 1))
                  IN  IF rest = None THEN None
                      ELSE Some(<< [name |-> name, value |-> SubSeq(s, eq + 2, q - 1)] >>
                                    \o rest.val)

\* The events of text t from index i on; open holds the names of the open
\* elements, seen is whether a root element has started.
RECURSIVE Lex(_, _, _, _)
LexTag(t, i, open, seen) ==
    LET e == Find(t, <<">">>, i + 1)
        short == e > i + 2 /\ At(t, e - 2, <<" ", "/">>)
        inner == SubSeq(t, i + 1, IF short THEN e - 3 ELSE e - 1)
        sp == Find(inner, <<" ">>, 1)
        q == IF sp = 0 THEN inner ELSE SubSeq(inner, 1, sp - 1)
        attrs == IF sp = 0 THEN Some(<<>>) ELSE LexAttributes(inner, sp)
    IN  IF e = 0 \/ ~IsName(q) \/ attrs = None
        THEN << ReaderErr("UnexpectedToken") >>
        ELSE << StartElement(ParseName(q), attrs.val) >>
                \o (IF short
                    THEN << EndElement(ParseName(q)) >> \o Lex(t, e + 1, open, TRUE)
                    ELSE Lex(t, e + 1, Append(open, q), TRUE))

LexEndTag(t, i, open, seen) ==
    LET e == Find(t, <<">">>, i + 2)
        q == SubSeq(t, i + 2, e - 1)
    IN  IF e = 0 \/ open = <<>> \/ Last(open) # q
        THEN << ReaderErr("UnexpectedClosingTag") >>
        ELSE << EndElement(ParseName(q)) >> \o Lex(t, e + 1, Front(open), seen)

LexCData(t, i, open, seen) ==
    LET e == Find(t, CDataClose, i + Len(CDataOpen)) IN
    IF e = 0 \/ open = <<>>
    THEN << ReaderErr("UnexpectedToken") >>
    ELSE << CData(SubSeq(t, i + Len(CDataOpen), e - 1)) >>
            \o Lex(t, e + Len(CDataClose), open, seen)

LexText(t, i, open, seen) ==
    LET lt == Find(t, <<"<">>, i)
        e == IF lt = 0 THEN Len(t) + 1 ELSE lt
        raw == SubSeq(t, i, e - 1)
        dec == Decode(raw, 1)
    IN  IF AllSpace(raw) THEN << Whitespace(raw) >> \o Lex(t, e, open, seen)
        ELSE IF open = <<>> \/ dec = None THEN << ReaderErr("UnexpectedToken") >>
        ELSE << Characters(dec.val) >> \o Lex(t, e, open, seen)

Lex(t, i, open, seen) ==
    IF i > Len(t)
    THEN (IF open # <<>> \/ ~seen
          THEN << ReaderErr("UnexpectedEof") >> ELSE << EndDocument >>)
    ELSE IF At(t, i, CDataOpen) THEN LexCData(t, i, open, seen)
    ELSE IF At(t, i, <<"<", "/">>) THEN LexEndTag(t, i, open, seen)
    ELSE IF t[i] = "<" THEN LexTag(t, i, open, seen)
    ELSE LexText(t, i, open, seen)

\* EventReader::new(text): StartDocument first, with what the declaration
\* says or version 1.0 and UTF-8 without one.
Tokenize(t) ==
    LET head == <<"<", "?", "x", "m", "l", " ", "v", "e", "r", "s", "i", "o", "n", "=", "\"">>
        mid == <<"\"", " ", "e", "n", "c", "o", "d", "i", "n", "g", "=", "\"">>
        m == Find(t, mid, 1)
        e == Find(t, <<"\"", "?", ">">>, 1)
    IN  IF At(t, 1, head) /\ m > 0 /\ e > m
        THEN << StartDocument(
                    IF SubSeq(t, Len(head) + 1, m - 1) = <<"1", ".", "1">>
                    THEN "Version11" ELSE "Version10",
                    SubSeq(t, m + Len(mid), e - 1)) >>
                \o Lex(t, e + 3, <<>>, FALSE)
        ELSE << StartDocument("Version10", UTF8) >> \o Lex(t, 1, <<>>, FALSE)

(***************************************************************************)
(* Writing a document and parsing the text written.                        *)
(***************************************************************************)
MaxChildren == 2    \* children of the root of a written document

Plain(name) == Element(None, name, EmptyMap, <<>>, None)

\* The documents of tests/write.rs.
TestRoot == Plain(<<"r", "o", "o", "t">>)
TestChild == Plain(<<"c", "h", "i", "l", "d">>)
SimpleRoot == [TestRoot EXCEPT !.children = << TestChild >>]
TagsInTextRoot == [TestRoot EXCEPT !.contents = Some(<<"<", "t", "a", "g", " ", "/", ">">>)]
NestedTagsRoot ==
    [TestRoot EXCEPT !.contents = Some(CDataOpen \o <<"<", "t", "a", "g", " ", "/", ">">> \o CDataClose)]
BuilderRoot ==
    [TestRoot EXCEPT !.children = <<
        [Plain(<<"l", "i", "s", "t">>) EXCEPT !.children = <<
            TestChild,
            [TestChild EXCEPT !.attributes = (<<"c", "l", "a", "s", "s">> :> <<"f", "o", "o">>),
                              !.contents = Some(<<"b", "a", "r">>)] >>] >>]

Leaves ==
    { Plain(<<"c">>),
      Element(None, <<"c">>, (<<"k">> :> <<"1">>), <<>>, Some(Text1)),
      Element(Some(<<"p">>), <<"c">>, (<<"p", ":", "k">> :> <<"2">>), <<>>, Some(<<"a", "<", "b">>)),
      Element(None, <<"d">>, EmptyMap, <<>>,
              Some(<<"x">> \o CDataOpen \o Text3 \o CDataClose \o <<"<", "y">>)),
      Element(None, <<"d">>, EmptyMap, <<>>, Some(<<" ">>)) }

LeafContents ==
    { None, Some(<<>>), Some(<<" ">>), Some(Text1), Some(<<"a", "<", "b">>),
      Some(CDataOpen \o Text3 \o CDataClose), Some(CDataOpen \o Text3) }

RECURSIVE SeqsUpTo(_, _)
SeqsUpTo(S, n) ==
    IF n = 0 THEN { <<>> }
    ELSE LET shorter == SeqsUpTo(S, n - 1) IN
         shorter \cup { Append(s, x) : s \in { t \in shorter : Len(t) = n - 1 }, x \in S }

Roots ==
    { TestRoot, SimpleRoot, TagsInTextRoot, NestedTagsRoot, BuilderRoot }
    \cup { Element(None, <<"r">>, EmptyMap, <<>>, c) : c \in LeafContents }
    \cup { Element(None, <<"r">>, EmptyMap, kids, c) :
             kids \in SeqsUpTo(Leaves, MaxChildren) \ { <<>> },
             c \in { None, Some(Text1) } }

Documents ==
    { DocumentDefault }
    \cup { [DocumentDefault EXCEPT !.root = Some(r)] : r \in Roots }
    \cup { [version |-> "Version11", encoding |-> <<"l", "1">>, root |-> Some(SimpleRoot)] }

\* doc.to_string() or doc.write_with(...): the text is written.
Write ==
    /\ writer.kind = "doc"
    /\ writer.text = None
    /\ writer' = [writer EXCEPT !.text = Some(WriteDocument(writer.doc, writer.cfg))]
    /\ UNCHANGED <<stack, doc, result, consumed, reader>>

\* Document::parse(text): EventReader::new over the text written.
OpenReader ==
    /\ writer.kind = "doc"
    /\ writer.text # None
    /\ reader = [kind |-> "closed"]
    /\ reader' = [kind |-> "queue", rest |-> Tokenize(writer.text.val)]
    /\ UNCHANGED <<stack, doc, result, consumed, writer>>

InitRT ==
    /\ stack = <<>>
    /\ doc = DocumentDefault
    /\ result = Running
    /\ consumed = <<>>
    /\ reader = [kind |-> "closed"]
    /\ writer \in { [kind |-> "doc", doc |-> d, cfg |-> c, text |-> None] :
                      d \in Documents, c \in { Pretty, Condensed } }

NextRT == Write \/ OpenReader \/ Next

SpecRT == InitRT /\ [][NextRT]_vars

(***************************************************************************)
(* What a written text says, read off the tree it was written from.        *)
(***************************************************************************)
RECURSIVE Join(_)
Join(s) ==
    IF s = <<>> THEN ""
    ELSE IF Len(s) = 1 THEN s[1]
    ELSE Join(SubSeq(s, 1, Len(s) \div 2)) \o Join(SubSeq(s, Len(s) \div 2 + 1, Len(s)))

IsSubstring(pat, s) == \E i \in 1..(Len(s) - Len(pat) + 1) : At(s, i, pat)

RECURSIVE NodesOf(_)
NodesOf(el) ==
    { el } \cup UNION { NodesOf(el.children[i]) : i \in 1..Len(el.children) }

\* The CDATA-wrapped stretches of c from index i on, leftmost first, as
\* pairs of first and last index.
RECURSIVE Sections(_, _)
Sections(c, i) ==
    LET o == Find(c, <<"<", "!", "[", "C", "D", "A", "T", "A", "[">>, i)
        e == IF o = 0 THEN 0 ELSE Find(c, <<"]", "]", ">">>, o + 9)
    IN  IF e = 0 THEN {} ELSE { << o, e + 2 >> } \cup Sections(c, e + 3)

InSection(c, i) == \E s \in Sections(c, 1) : s[1] <= i /\ i <= s[2]

Escaped(c) ==
    Flatten([ i \in 1..Len(c) |->
                IF c[i] = "<" /\ ~InSection(c, i) THEN <<"&", "l", "t", ";">> ELSE << c[i] >> ])

Short(el) ==
    <<"<">> \o QName(el) \o WriteAttributes(el.attributes) \o <<" ", "/", ">">>

Written == writer.kind = "doc" /\ writer.text # None
WrittenNodes ==
    IF writer.doc.root = None THEN {} ELSE NodesOf(writer.doc.root.val)

(***************************************************************************)
(* C8.  Round trip: when a document whose contents hold no <![CDATA[ is    *)
(* written, pretty or condensed, and the text is parsed, the parse returns *)
(* Ok with a root equal to the root written.                               *)
(***************************************************************************)
NoMarker(el) ==
    \A n \in NodesOf(el) :
        n.contents # None => ~IsSubstring(<<"<", "!", "[", "C", "D", "A", "T", "A", "[">>, n.contents.val)

C8_RoundTrip ==
    ( /\ writer.kind = "doc"
      /\ writer.doc.root # None
      /\ NoMarker(writer.doc.root.val)
      /\ result # Running ) =>
        /\ result.kind = "Ok"
        /\ result.doc.root = writer.doc.root

(***************************************************************************)
(* C9.  In the text written, the contents of every element appear after    *)
(* its open tag with every < outside a CDATA-wrapped stretch written as    *)
(* &lt; and every CDATA-wrapped stretch as it is; the documents of the     *)
(* tests tags_in_text and nested_tags are written as the tests expect.     *)
(***************************************************************************)
C9_EscapingOfContents ==
    Written =>
        /\ \A n \in WrittenNodes :
              n.contents # None =>
                IsSubstring(OpenTag(n) \o Escaped(n.contents.val)
                                \o (IF n.children = <<>> THEN CloseTag(n) ELSE <<>>),
                            writer.text.val)
        /\ (writer.doc.root = Some(TagsInTextRoot) /\ writer.cfg = Pretty) =>
              Join(writer.text.val) =
                "<?xml version=\"1.0\" encoding=\"UTF-8\"?>\n<root>&lt;tag /></root>"
        /\ (writer.doc.root = Some(NestedTagsRoot) /\ writer.cfg = Pretty) =>
              Join(writer.text.val) =
                "<?xml version=\"1.0\" encoding=\"UTF-8\"?>\n<root><![CDATA[<tag />]]></root>"

C9_Witness ==
    /\ Written
    /\ \E n \in WrittenNodes :
          /\ n.contents # None
          /\ Sections(n.contents.val, 1) # {}
          /\ \E i \in 1..Len(n.contents.val) :
                n.contents.val[i] = "<" /\ ~InSection(n.contents.val, i)

(***************************************************************************)
(* C10.  In the text written, pretty or condensed, an element has the      *)
(* short form <name attributes /> exactly when it has no children and no   *)
(* contents, at every depth; any other element has its closing tag.  (In   *)
(* every document written here, an element without children and contents   *)
(* differs in name or attributes from those with.)  The documents of the   *)
(* tests simple_document and condensed_document are written as expected.   *)
(***************************************************************************)
C10_ShortFormIffEmpty ==
    Written =>
        /\ \A n \in WrittenNodes :
              IF n.children = <<>> /\ n.contents = None
              THEN IsSubstring(Short(n), writer.text.val)
              ELSE /\ ~IsSubstring(Short(n), writer.text.val)
                   /\ IsSubstring(CloseTag(n), writer.text.val)
        /\ (writer.doc.root = Some(SimpleRoot) /\ writer.cfg = Pretty
                /\ writer.doc.version = "Version10") =>
              Join(writer.text.val) =
                "<?xml version=\"1.0\" encoding=\"UTF-8\"?>\n<root>\n  <child />\n</root>"
        /\ (writer.doc.root = Some(SimpleRoot) /\ writer.cfg = Condensed) =>
              Join(writer.text.val) = "<root><child /></root>"

C10_Witness ==
    /\ Written
    /\ writer.cfg = Condensed
    /\ writer.doc.root = Some(BuilderRoot)

====
